---- MODULE Spec2Model ----
(***************************************************************************)
(* A model of flen2pq: FixedWidthToParquetConverter.convert and the type   *)
(* handlers it applies (src/flen2pq/flen2pq.py).                           *)
(*                                                                         *)
(* Text is a tuple of one-character strings (Latin-1).  A float is kept as *)
(* a decimal, digits * 10^exp (1234.50 is <<1,2,3,4,5>> * 10^-1), an int   *)
(* as a sign and its digits.  pandas, pyarrow and the file system are      *)
(* modelled at their interface: what a call returns or raises.             *)
(***************************************************************************)
EXTENDS Integers, Sequences, FiniteSets, TLC

\* ------------------------------------------------------------- bounds
MaxRows == 3
MaxChunkSize == 2
MaxWidth == 4

\* ------------------------------------------------------------- text
Digits == {"0", "1", "2", "3", "4", "5", "6", "7", "8", "9"}

DigitVal(c) ==
  CASE c = "0" -> 0 [] c = "1" -> 1 [] c = "2" -> 2 [] c = "3" -> 3
    [] c = "4" -> 4 [] c = "5" -> 5 [] c = "6" -> 6 [] c = "7" -> 7
    [] c = "8" -> 8 [] c = "9" -> 9

IsDigits(s) == Len(s) > 0 /\ \A i \in 1..Len(s) : s[i] \in Digits

RECURSIVE DigitsValue(_)
DigitsValue(s) ==
  IF Len(s) = 0 THEN 0
  ELSE 10 * DigitsValue(SubSeq(s, 1, Len(s) - 1)) + DigitVal(s[Len(s)])

\* The whitespace of float() and int(): tab, line feed, vertical tab, form
\* feed, carriage return, space, next line (0x85), no-break space (0xa0).
\* (A string of this notation holds no character above 0xff: the Unicode
\* spaces and digits above it are outside the model.)
NumericWhitespace == {"\t", "\n", "", "\f", "\r", " ", "", " "}

\* The whitespace of str.strip(): that, and the separators 0x1c-0x1f.
Whitespace == NumericWhitespace \cup {"", "", "", ""}

\* The least and the greatest of a non-empty set of positions.
First(S) == CHOOSE i \in S : \A j \in S : i <= j
Last(S) == CHOOSE i \in S : \A j \in S : i >= j

\* s with its leading and trailing characters of cs removed.
StripChars(s, cs) ==
  LET keep == {i \in 1..Len(s) : s[i] \notin cs}
  IN  IF keep = {} THEN <<>> ELSE SubSeq(s, First(keep), Last(keep))

\* str.strip(): leading and trailing whitespace removed.
strip(s) == StripChars(s, Whitespace)

\* Python's s[a:b] for 0 <= a, clipped to the string as slicing is.
Slice(s, a, b) ==
  LET hi == IF b > Len(s) THEN Len(s) ELSE b
  IN  IF a >= hi THEN <<>> ELSE SubSeq(s, a + 1, hi)

\* Position of the first "." of s, 0 when there is none.
DotAt(s) ==
  IF \E i \in 1..Len(s) : s[i] = "."
  THEN CHOOSE i \in 1..Len(s) : s[i] = "." /\ \A j \in 1..(i - 1) : s[j] # "."
  ELSE 0

\* Position of the first exponent marker of s, 0 when there is none.
ExpAt(s) ==
  IF \E i \in 1..Len(s) : s[i] \in {"e", "E"}
  THEN CHOOSE i \in 1..Len(s) :
         s[i] \in {"e", "E"} /\ \A j \in 1..(i - 1) : s[j] \notin {"e", "E"}
  ELSE 0

AllDigits(s) == \A i \in 1..Len(s) : s[i] \in Digits

\* An underscore of a numeric literal stands between two digits.
UnderscoresOK(s) ==
  \A i \in 1..Len(s) :
    s[i] = "_" =>
      i > 1 /\ i < Len(s) /\ s[i - 1] \in Digits /\ s[i + 1] \in Digits

NotUnderscore(c) == c # "_"
RemoveUnderscores(s) == SelectSeq(s, NotUnderscore)

\* The sign of a numeric literal and the literal without it.
Negative(s) == Len(s) > 0 /\ s[1] = "-"
Unsigned(s) == IF Len(s) > 0 /\ s[1] \in {"+", "-"} THEN Tail(s) ELSE s

\* The letters of "inf", "infinity" and "nan" in lower case.
Lower(c) ==
  CASE c = "I" -> "i" [] c = "N" -> "n" [] c = "F" -> "f" [] c = "T" -> "t"
    [] c = "Y" -> "y" [] c = "A" -> "a" [] OTHER -> c

\* ------------------------------------------------------------- numbers
\* Decimal digits as a sequence of 0..9, of any length.
DigitList(s) == [i \in 1..Len(s) |-> DigitVal(s[i])]

\* Digits without their leading, and without their trailing, zeros.
TrimLeft(ds) ==
  LET nz == {i \in 1..Len(ds) : ds[i] # 0}
  IN  IF nz = {} THEN <<>> ELSE SubSeq(ds, First(nz), Len(ds))

TrimRight(ds) ==
  LET nz == {i \in 1..Len(ds) : ds[i] # 0}
  IN  IF nz = {} THEN <<>> ELSE SubSeq(ds, 1, Last(nz))

\* 0.a < 0.b, the digits read as decimal fractions.
LexLess(a, b) ==
  LET at(x, i) == IF i <= Len(x) THEN x[i] ELSE 0
      n == IF Len(a) > Len(b) THEN Len(a) ELSE Len(b)
  IN  \E i \in 1..n :
        at(a, i) < at(b, i) /\ \A j \in 1..(i - 1) : at(a, j) = at(b, j)

\* An int: (-1)^neg * digits, digits without leading zeros, zero without
\* digits and without sign.
PyInt(neg, digits) == [neg |-> neg /\ digits # <<>>, digits |-> digits]

\* A float: (-1)^neg * digits * 10^exp, digits without leading or trailing
\* zeros (zero has no digits, exp 0, and keeps its sign), an infinity, or nan.
Fin(neg, digits, exp) ==
  [kind |-> "fin", neg |-> neg, digits |-> digits, exp |-> exp]
Inf(neg) == [kind |-> "inf", neg |-> neg, digits |-> <<>>, exp |-> 0]
NaN == [kind |-> "nan", neg |-> FALSE, digits |-> <<>>, exp |-> 0]

\* The digits of 2^1024 - 2^970 (1.797...e308), the least value that
\* rounds to infinity.
OverflowDigits ==
  <<1, 7, 9, 7, 6, 9, 3, 1, 3, 4, 8, 6, 2, 3, 1, 5, 8, 0, 7, 9, 3, 7, 2, 8, 9,
    7, 1, 4, 0, 5, 3, 0, 3, 4, 1, 5, 0, 7, 9, 9, 3, 4, 1, 3, 2, 7, 1, 0, 0, 3,
    7, 8, 2, 6, 9, 3, 6, 1, 7, 3, 7, 7, 8, 9, 8, 0, 4, 4, 4, 9, 6, 8, 2, 9, 2,
    7, 6, 4, 7, 5, 0, 9, 4, 6, 6, 4, 9, 0, 1, 7, 9, 7, 7, 5, 8, 7, 2, 0, 7, 0,
    9, 6, 3, 3, 0, 2, 8, 6, 4, 1, 6, 6, 9, 2, 8, 8, 7, 9, 1, 0, 9, 4, 6, 5, 5,
    5, 5, 4, 7, 8, 5, 1, 9, 4, 0, 4, 0, 2, 6, 3, 0, 6, 5, 7, 4, 8, 8, 6, 7, 1,
    5, 0, 5, 8, 2, 0, 6, 8, 1, 9, 0, 8, 9, 0, 2, 0, 0, 0, 7, 0, 8, 3, 8, 3, 6,
    7, 6, 2, 7, 3, 8, 5, 4, 8, 4, 5, 8, 1, 7, 7, 1, 1, 5, 3, 1, 7, 6, 4, 4, 7,
    5, 7, 3, 0, 2, 7, 0, 0, 6, 9, 8, 5, 5, 5, 7, 1, 3, 6, 6, 9, 5, 9, 6, 2, 2,
    8, 4, 2, 9, 1, 4, 8, 1, 9, 8, 6, 0, 8, 3, 4, 9, 3, 6, 4, 7, 5, 2, 9, 2, 7,
    1, 9, 0, 7, 4, 1, 6, 8, 4, 4, 4, 3, 6, 5, 5, 1, 0, 7, 0, 4, 3, 4, 2, 7, 1,
    1, 5, 5, 9, 6, 9, 9, 5, 0, 8, 0, 9, 3, 0, 4, 2, 8, 8, 0, 1, 7, 7, 9, 0, 4,
    1, 7, 4, 4, 9, 7, 7, 9, 2>>

\* The digits of 2^-1075 = 5^1075 * 10^-1075 (2.470...e-324), the greatest
\* value that rounds to zero.
UnderflowDigits ==
  <<2, 4, 7, 0, 3, 2, 8, 2, 2, 9, 2, 0, 6, 2, 3, 2, 7, 2, 0, 8, 8, 2, 8, 4, 3,
    9, 6, 4, 3, 4, 1, 1, 0, 6, 8, 6, 1, 8, 2, 5, 2, 9, 9, 0, 1, 3, 0, 7, 1, 6,
    2, 3, 8, 2, 2, 1, 2, 7, 9, 2, 8, 4, 1, 2, 5, 0, 3, 3, 7, 7, 5, 3, 6, 3, 5,
    1, 0, 4, 3, 7, 5, 9, 3, 2, 6, 4, 9, 9, 1, 8, 1, 8, 0, 8, 1, 7, 9, 9, 6, 1,
    8, 9, 8, 9, 8, 2, 8, 2, 3, 4, 7, 7, 2, 2, 8, 5, 8, 8, 6, 5, 4, 6, 3, 3, 2,
    8, 3, 5, 5, 1, 7, 7, 9, 6, 9, 8, 9, 8, 1, 9, 9, 3, 8, 7, 3, 9, 8, 0, 0, 5,
    3, 9, 0, 9, 3, 9, 0, 6, 3, 1, 5, 0, 3, 5, 6, 5, 9, 5, 1, 5, 5, 7, 0, 2, 2,
    6, 3, 9, 2, 2, 9, 0, 8, 5, 8, 3, 9, 2, 4, 4, 9, 1, 0, 5, 1, 8, 4, 4, 3, 5,
    9, 3, 1, 8, 0, 2, 8, 4, 9, 9, 3, 6, 5, 3, 6, 1, 5, 2, 5, 0, 0, 3, 1, 9, 3,
    7, 0, 4, 5, 7, 6, 7, 8, 2, 4, 9, 2, 1, 9, 3, 6, 5, 6, 2, 3, 6, 6, 9, 8, 6,
    3, 6, 5, 8, 4, 8, 0, 7, 5, 7, 0, 0, 1, 5, 8, 5, 7, 6, 9, 2, 6, 9, 9, 0, 3,
    7, 0, 6, 3, 1, 1, 9, 2, 8, 2, 7, 9, 5, 5, 8, 5, 5, 1, 3, 3, 2, 9, 2, 7, 8,
    3, 4, 3, 3, 8, 4, 0, 9, 3, 5, 1, 9, 7, 8, 0, 1, 5, 5, 3, 1, 2, 4, 6, 5, 9,
    7, 2, 6, 3, 5, 7, 9, 5, 7, 4, 6, 2, 2, 7, 6, 6, 4, 6, 5, 2, 7, 2, 8, 2, 7,
    2, 2, 0, 0, 5, 6, 3, 7, 4, 0, 0, 6, 4, 8, 5, 4, 9, 9, 9, 7, 7, 0, 9, 6, 5,
    9, 9, 4, 7, 0, 4, 5, 4, 0, 2, 0, 8, 2, 8, 1, 6, 6, 2, 2, 6, 2, 3, 7, 8, 5,
    7, 3, 9, 3, 4, 5, 0, 7, 3, 6, 3, 3, 9, 0, 0, 7, 9, 6, 7, 7, 6, 1, 9, 3, 0,
    5, 7, 7, 5, 0, 6, 7, 4, 0, 1, 7, 6, 3, 2, 4, 6, 7, 3, 6, 0, 0, 9, 6, 8, 9,
    5, 1, 3, 4, 0, 5, 3, 5, 5, 3, 7, 4, 5, 8, 5, 1, 6, 6, 6, 1, 1, 3, 4, 2, 2,
    3, 7, 6, 6, 6, 7, 8, 6, 0, 4, 1, 6, 2, 1, 5, 9, 6, 8, 0, 4, 6, 1, 9, 1, 4,
    4, 6, 7, 2, 9, 1, 8, 4, 0, 3, 0, 0, 5, 3, 0, 0, 5, 7, 5, 3, 0, 8, 4, 9, 0,
    4, 8, 7, 6, 5, 3, 9, 1, 7, 1, 1, 3, 8, 6, 5, 9, 1, 6, 4, 6, 2, 3, 9, 5, 2,
    4, 9, 1, 2, 6, 2, 3, 6, 5, 3, 8, 8, 1, 8, 7, 9, 6, 3, 6, 2, 3, 9, 3, 7, 3,
    2, 8, 0, 4, 2, 3, 8, 9, 1, 0, 1, 8, 6, 7, 2, 3, 4, 8, 4, 9, 7, 6, 6, 8, 2,
    3, 5, 0, 8, 9, 8, 6, 3, 3, 8, 8, 5, 8, 7, 9, 2, 5, 6, 2, 8, 3, 0, 2, 7, 5,
    5, 9, 9, 5, 6, 5, 7, 5, 2, 4, 4, 5, 5, 5, 0, 7, 2, 5, 5, 1, 8, 9, 3, 1, 3,
    6, 9, 0, 8, 3, 6, 2, 5, 4, 7, 7, 9, 1, 8, 6, 9, 4, 8, 6, 6, 7, 9, 9, 4, 9,
    6, 8, 3, 2, 4, 0, 4, 9, 7, 0, 5, 8, 2, 1, 0, 2, 8, 5, 1, 3, 1, 8, 5, 4, 5,
    1, 3, 9, 6, 2, 1, 3, 8, 3, 7, 7, 2, 2, 8, 2, 6, 1, 4, 5, 4, 3, 7, 6, 9, 3,
    4, 1, 2, 5, 3, 2, 0, 9, 8, 5, 9, 1, 3, 2, 7, 6, 6, 7, 2, 3, 6, 3, 2, 8, 1,
    2, 5>>

\* The double nearest to (-1)^neg * digits * 10^exp: infinity from
\* 2^1024 - 2^970 on, zero up to 2^-1075; in between the double is named by
\* the decimal it is nearest to, which is kept unrounded: equal decimals are
\* equal doubles, and two decimals that round to one double stay apart.
Double(neg, digits, exp) ==
  LET lead == TrimLeft(digits)
      ds == TrimRight(lead)
      e == exp + (Len(lead) - Len(ds))
      adj == e + Len(ds) - 1
  IN  IF ds = <<>> THEN Fin(neg, <<>>, 0)
      ELSE IF adj > 308 \/ (adj = 308 /\ ~LexLess(ds, OverflowDigits))
           THEN Inf(neg)
      ELSE IF adj < 0 - 324 \/ (adj = 0 - 324 /\ ~LexLess(UnderflowDigits, ds))
           THEN Fin(neg, <<>>, 0)
      ELSE Fin(neg, ds, e)

\* The most digits float() takes in a mantissa, leading zeros apart, and
\* the most after its point (MAX_DIGITS), and the exponent it takes a
\* longer one for (MAX_ABS_EXP).
MaxDigits == 1000000000
MaxAbsExp == 1100000000

\* The value of an exponent's digits: of more than nine digits after the
\* leading zeros, MaxAbsExp.
ExpValue(s) ==
  LET ds == TrimLeft(DigitList(s))
  IN  IF Len(ds) > 9 THEN MaxAbsExp
      ELSE DigitsValue(SubSeq(s, Len(s) - Len(ds) + 1, Len(s)))

\* An int as a float.
FromInt(n) == Double(n.neg, n.digits, 0)

IsZero(v) == v.kind = "fin" /\ v.digits = <<>>

\* float(text): whitespace around the text is ignored; underscores between
\* digits are dropped; an optional sign, then "inf", "infinity" or "nan" in
\* any case, or digits with at most one "." and at least one digit,
\* optionally followed by an exponent (e or E, optional sign, digits).  A
\* mantissa of more than MaxDigits digits after its leading zeros, or of
\* more than MaxDigits digits after the point, is refused.  ok is FALSE
\* where Python raises ValueError.
float(text) ==
  LET t == StripChars(text, NumericWhitespace)
      u == RemoveUnderscores(t)
      neg == Negative(u)
      r == Unsigned(u)
      name == [i \in 1..Len(r) |-> Lower(r[i])]
      e == ExpAt(r)
      m == IF e = 0 THEN r ELSE SubSeq(r, 1, e - 1)
      x == IF e = 0 THEN <<>> ELSE SubSeq(r, e + 1, Len(r))
      d == DotAt(m)
      ip == IF d = 0 THEN m ELSE SubSeq(m, 1, d - 1)
      fp == IF d = 0 THEN <<>> ELSE SubSeq(m, d + 1, Len(m))
      xd == Unsigned(x)
      xv == IF e = 0 THEN 0
            ELSE IF Negative(x) THEN 0 - ExpValue(xd) ELSE ExpValue(xd)
  IN  IF ~UnderscoresOK(t) THEN [ok |-> FALSE, num |-> 0]
      ELSE IF name \in {<<"i", "n", "f">>,
                        <<"i", "n", "f", "i", "n", "i", "t", "y">>}
           THEN [ok |-> TRUE, num |-> Inf(neg)]
      ELSE IF name = <<"n", "a", "n">> THEN [ok |-> TRUE, num |-> NaN]
      ELSE IF /\ AllDigits(ip) /\ AllDigits(fp) /\ Len(ip) + Len(fp) > 0
              /\ e # 0 => IsDigits(xd)
              /\ Len(TrimLeft(DigitList(ip \o fp))) <= MaxDigits
              /\ Len(fp) <= MaxDigits
           THEN [ok |-> TRUE,
                 num |-> Double(neg, DigitList(ip \o fp), xv - Len(fp))]
      ELSE [ok |-> FALSE, num |-> 0]

\* The most digits int() converts (sys.int_info.default_max_str_digits).
MaxStrDigits == 4300

\* int(text): whitespace around the text is ignored; an optional sign, then
\* at most MaxStrDigits digits, with single underscores allowed between
\* digits.
int(text) ==
  LET t == StripChars(text, NumericWhitespace)
      u == RemoveUnderscores(t)
      ds == Unsigned(u)
  IN  IF UnderscoresOK(t) /\ IsDigits(ds) /\ Len(ds) <= MaxStrDigits
      THEN [ok |-> TRUE, num |-> PyInt(Negative(u), TrimLeft(DigitList(ds)))]
      ELSE [ok |-> FALSE, num |-> 0]

\* ------------------------------------------------------------- TypeHandlers
\* The amount cut before its last character only.
monetary_type_handler_tenths(str_amount) ==
  LET n == Len(str_amount)
      integer_part == IF n > 1 THEN SubSeq(str_amount, 1, n - 1) ELSE <<>>
      decimal_part == IF n > 1 THEN SubSeq(str_amount, n, n) ELSE str_amount
  IN  float(integer_part \o <<".">> \o decimal_part)

\* str_amount[:-2] + '.' + str_amount[-2:], through float().
monetary_type_handler(str_amount) ==
  LET n == Len(str_amount)
      integer_part == IF n > 2 THEN SubSeq(str_amount, 1, n - 2) ELSE <<>>
      decimal_part == IF n > 2 THEN SubSeq(str_amount, n - 1, n) ELSE str_amount
  IN  float(integer_part \o <<".">> \o decimal_part)

int_type_handler(str_int) == int(strip(str_int))

\* ------------------------------------------------------------- pandas
\* A cell of a DataFrame column: text for a str column, num for a numeric,
\* bool (0/1) or date column, nan for NaN / NaT.
Cell(nan, num, text) == [nan |-> nan, num |-> num, text |-> text]
StrCell(text) == Cell(FALSE, 0, text)
NumCell(num) == Cell(FALSE, num, <<>>)
NaNCell == Cell(TRUE, 0, <<>>)
\* The cell of a float: nan is the missing value of the column.
FloatCell(v) == IF v.kind = "nan" THEN NaNCell ELSE NumCell(v)

Column(name, dtype, vals) == [name |-> name, dtype |-> dtype, vals |-> vals]

\* The date format of the model's schemas: day of the month.
DateFormat == <<"%", "d">>

\* The parser of pd.to_numeric on one string: float()'s literals, without
\* the underscores.
to_double(text) ==
  IF \E i \in 1..Len(text) : text[i] = "_" THEN [ok |-> FALSE, num |-> 0]
  ELSE float(text)

\* A string pd.to_numeric reads as an integer: parsed, finite, written
\* without "." and without exponent.
maybe_int(text) ==
  /\ DotAt(text) = 0 /\ ExpAt(text) = 0
  /\ LET p == to_double(text) IN p.ok /\ p.num.kind = "fin"

\* pd.to_numeric(col, errors='coerce'): a column of integers is int64; one
\* fractional, exponent, infinite or malformed value makes the whole column
\* float64, the malformed values NaN.
to_numeric(col) ==
  LET n == Len(col.vals)
      p == [i \in 1..n |-> to_double(col.vals[i].text)]
  IN  IF \A i \in 1..n : maybe_int(col.vals[i].text)
      THEN Column(col.name, "int64",
                  [i \in 1..n |-> NumCell(int(col.vals[i].text).num)])
      ELSE Column(col.name, "float64",
                  [i \in 1..n |-> IF p[i].ok THEN FloatCell(p[i].num) ELSE NaNCell])

\* Series.astype(bool): zero is False, everything else (NaN too) is True.
astype_bool(col) ==
  Column(col.name, "bool",
         [i \in 1..Len(col.vals) |->
            LET c == col.vals[i]
                nonzero == IF c.nan THEN TRUE
                           ELSE IF col.dtype = "int64" THEN c.num.digits # <<>>
                           ELSE ~IsZero(c.num)
            IN  NumCell(IF nonzero THEN 1 ELSE 0)])

\* pd.to_datetime(col, format="%d", errors='coerce'): one or two digits
\* naming a day 1..31, anything else NaT.
to_datetime(col, format) ==
  Column(col.name, "datetime64",
         [i \in 1..Len(col.vals) |->
            LET t == col.vals[i].text IN
            IF format = DateFormat /\ IsDigits(t) /\ Len(t) <= 2
               /\ DigitsValue(t) \in 1..31
            THEN NumCell(DigitsValue(t)) ELSE NaNCell])

\* Series.apply(handler): raises where the handler raises.  (Neither
\* handler returns nan: monetary_type_handler's text always holds a ".".)
apply(col, dtype, results) ==
  [ok |-> \A i \in 1..Len(results) : results[i].ok,
   col |-> Column(col.name, dtype,
                  [i \in 1..Len(results) |-> NumCell(results[i].num)])]

\* One pass of the loop over self.fields: the column of field, coerced, or
\* ok = FALSE where the body raises ValueError.
CoerceField(field, col) ==
  LET n == Len(col.vals) IN
  CASE field.type = "int" ->
         apply(col, "int64", [i \in 1..n |-> int_type_handler(col.vals[i].text)])
    [] field.type = "float" -> [ok |-> TRUE, col |-> to_numeric(col)]
    [] field.type = "bool" -> [ok |-> TRUE, col |-> astype_bool(to_numeric(col))]
    [] field.type = "date" ->
         IF field.format = <<>> THEN [ok |-> FALSE, col |-> col]
         ELSE [ok |-> TRUE, col |-> to_datetime(col, field.format)]
    [] field.type = "fixed_monetary" ->
         apply(col, "float64",
               [i \in 1..n |-> monetary_type_handler(col.vals[i].text)])
    [] OTHER -> [ok |-> TRUE, col |-> col]

\* ------------------------------------------------------------- read_fwf
\* Offset of field k in a line: the widths before it, summed.
RECURSIVE Offset(_, _)
Offset(flds, k) == IF k <= 1 THEN 0 ELSE Offset(flds, k - 1) + flds[k - 1].length

\* The characters read_fwf strips from a cell.
FwfDelimiter == {" ", "\t", "\r", "\n"}

\* One line cut at the cumulative widths, each piece stripped of blanks.
SplitLine(flds, line) ==
  [k \in 1..Len(flds) |->
     StripChars(Slice(line, Offset(flds, k), Offset(flds, k) + flds[k].length),
                FwfDelimiter)]

\* skip_blank_lines (read_fwf's default): a line is blank when strip()
\* leaves nothing of any cell cut from it, that is, when every character
\* within the columns is whitespace.
IsBlankLine(flds, line) ==
  \A k \in 1..Len(flds) :
    LET cell == Slice(line, Offset(flds, k), Offset(flds, k) + flds[k].length)
    IN  \A i \in 1..Len(cell) : cell[i] \in Whitespace

\* The lines the reader keeps, in file order.
DataLines(flds, lines) == SelectSeq(lines, LAMBDA l : ~IsBlankLine(flds, l))

\* The blank lines before the first line that is not blank: read_fwf skips
\* them when it buffers the first line of data.
LeadingBlanks(flds, lines) ==
  LET data == {i \in DOMAIN lines : ~IsBlankLine(flds, lines[i])}
  IN  IF data = {} THEN Len(lines)
      ELSE (CHOOSE i \in data : \A j \in data : i <= j) - 1

\* The chunk the reader makes of the raw lines from+1 .. to of the input:
\* the blank lines among them are dropped after the lines are counted, so
\* the chunk may hold fewer rows than lines, or none.  A DataFrame of str
\* columns.
ReadFwfChunk(flds, lines, from, to) ==
  LET rows == DataLines(flds, SubSeq(lines, from + 1, to))
  IN  [k \in 1..Len(flds) |->
         Column(flds[k].name, "str",
                [i \in 1..Len(rows) |-> StrCell(SplitLine(flds, rows[i])[k])])]

Min(a, b) == IF a < b THEN a ELSE b

\* ------------------------------------------------------------- pyarrow
\* pa.Table.from_pandas(chunk): the schema (name and type of each column)
\* and the rows.
TableSchema(df) == [k \in 1..Len(df) |-> [name |-> df[k].name, type |-> df[k].dtype]]
TableRows(df) ==
  IF Len(df) = 0 THEN <<>>
  ELSE [i \in 1..Len(df[1].vals) |-> [k \in 1..Len(df) |-> df[k].vals[i]]]

\* A schema check that compares the column names only.
SchemaEquals_names(a, b) ==
  /\ Len(a) = Len(b)
  /\ \A k \in 1..Len(a) : a[k].name = b[k].name

\* table.schema.equals(self.schema, check_metadata=False) in write_table.
SchemaEquals(a, b) == a = b

NoFile == [exists |-> FALSE, stale |-> FALSE, schema |-> <<>>, rows |-> <<>>,
           finalized |-> FALSE]
\* A file left at the output path by an earlier run.
StaleFile == [exists |-> TRUE, stale |-> TRUE, schema |-> <<>>, rows |-> <<>>,
              finalized |-> TRUE]
\* pq.ParquetWriter(path, schema): the file is created (or truncated).
NewFile(schema) == [exists |-> TRUE, stale |-> FALSE, schema |-> schema,
                    rows |-> <<>>, finalized |-> FALSE]

\* ------------------------------------------------------------- inputs
Field(name, length, type, format) ==
  [name |-> name, length |-> length, type |-> type, format |-> format]

\* The schemas of the model: every type tag, a date with and without its
\* format, one and two columns.
Schemas ==
  { << Field("col1", 4, "int", <<>>) >>,
    << Field("col1", 2, "int", <<>>), Field("col2", 2, "int", <<>>) >>,
    << Field("col1", 2, "int", <<>>), Field("col2", 2, "float", <<>>) >>,
    << Field("col1", 4, "fixed_monetary", <<>>) >>,
    << Field("col1", 2, "string", <<>>), Field("col2", 2, "bool", <<>>) >>,
    << Field("col1", 2, "date", DateFormat), Field("col2", 2, "float", <<>>) >>,
    << Field("col1", 2, "float", <<>>), Field("col2", 2, "date", DateFormat) >>,
    << Field("col1", 2, "int", <<>>), Field("col2", 2, "date", <<>>) >>,
    << Field("col1", 4, "date", <<>>) >> }

\* The lines of the model's input files: digits, a sign and a fraction,
\* letters on a line shorter than the row width, a blank line.
Lines ==
  { <<"1", "2", "0", "7">>, <<"-", "1", ".", "5">>, <<"a", "b">>, <<>> }

RECURSIVE SeqsUpTo(_, _)
SeqsUpTo(S, n) ==
  IF n = 0 THEN {<<>>}
  ELSE LET shorter == SeqsUpTo(S, n - 1)
       IN  shorter \cup {Append(q, x) : q \in {r \in shorter : Len(r) = n - 1}, x \in S}

InputFiles == SeqsUpTo(Lines, MaxRows)

\* self.fault_tolerant: True, False, or the None argparse leaves.
FaultTolerantValues == {"True", "False", "None"}

\* ------------------------------------------------------------- state
VARIABLES
  fields,          \* self.fields
  input_file,      \* the lines of self.input_file
  chunk_size,      \* self.chunk_size
  fault_tolerant,  \* self.fault_tolerant
  output_file,     \* what is at the path self.output_file
  stale_at_start,  \* whether a file was at the output path before the run
  first_chunk, pq_writer, in_error,   \* convert()'s locals
  chunk,           \* the DataFrame of the loop
  chunk_no,        \* chunks the reader has yielded
  pos,             \* raw lines the reader has consumed
  field_i,         \* position of the loop over self.fields
  pc,              \* position in convert()
  outcome,         \* how convert() ended
  printed,         \* what was printed, in order
  err,             \* the exception caught, the chunk and the place it rose at
  log,             \* the calls made on the writer and the output path, in order
  run,             \* which call of convert() on this converter is under way
  first            \* what the first call left, once a second call has begun

vars == <<fields, input_file, chunk_size, fault_tolerant, output_file,
          stale_at_start, first_chunk, pq_writer, in_error, chunk, chunk_no,
          pos, field_i, pc, outcome, printed, err, log, run, first>>

\* What no step of convert() assigns: the converter's attributes, the state
\* the output path had before the first call, and the record of earlier calls.
config == <<fields, input_file, chunk_size, fault_tolerant, stale_at_start,
            run, first>>

NoWriter == [state |-> "None", schema |-> <<>>]
NoErr == [kind |-> "none", chunk |-> 0, at |-> "none", type |-> "none"]
Err(kind, k, at, type) == [kind |-> kind, chunk |-> k, at |-> at, type |-> type]
Call(op, k, schema) == [op |-> op, chunk |-> k, schema |-> schema]

NoFirst == [file |-> <<>>, outcome |-> "none", err |-> NoErr]

\* __init__, and convert() up to the loop: the reader is open and has
\* skipped the blank lines at the head of the input; no chunk is read.
Init ==
  /\ fields \in Schemas
  /\ input_file \in InputFiles
  /\ chunk_size \in 1..MaxChunkSize
  /\ fault_tolerant \in FaultTolerantValues
  /\ stale_at_start \in BOOLEAN
  /\ output_file = IF stale_at_start THEN StaleFile ELSE NoFile
  /\ first_chunk = TRUE
  /\ pq_writer = NoWriter
  /\ in_error = FALSE
  /\ chunk = <<>>
  /\ chunk_no = 0
  /\ pos = LeadingBlanks(fields, input_file)
  /\ field_i = 0
  /\ pc = "read"
  /\ outcome = "running"
  /\ printed = <<>>
  /\ err = NoErr
  /\ log = <<>>
  /\ run = 1
  /\ first = NoFirst

\* ------------------------------------------------------------- convert()
\* chunk.empty never true: the empty chunk of an empty file is processed.
empty_never(df) == FALSE

\* DataFrame.empty: no column, or no row.
empty(df) == Len(df) = 0 \/ Len(df[1].vals) = 0

\* "if not self.fault_tolerant": None re-raises as False does.
Reraises_falsy(ft) == ft \in {"False", "None"}

\* "if self.fault_tolerant is False": only the boolean False re-raises.
Reraises(ft) == ft = "False"

\* "except Exception" that prints and forgets to set the error flag.
ExceptException_noflag(e) ==
  /\ in_error' = in_error
  /\ printed' = Append(printed, "e")
  /\ err' = e
  /\ pc' = "finalize"

\* "except Exception as e": the error flag is set and the error printed;
\* the loop is left.
ExceptException(e) ==
  /\ in_error' = TRUE
  /\ printed' = Append(printed, "e")
  /\ err' = e
  /\ pc' = "finalize"

\* "for chunk in file" yields the chunk of the next chunk_size raw lines
\* (of an input without data, one empty chunk); "if chunk.empty: break"
\* leaves the loop on a chunk whose lines were all blank, wherever it is.
ReadChunk ==
  /\ pc = "read"
  /\ pos < Len(input_file) \/ chunk_no = 0
  /\ LET to == Min(pos + chunk_size, Len(input_file))
         df == ReadFwfChunk(fields, input_file, pos, to)
     IN  /\ chunk' = df
         /\ pos' = to
         /\ chunk_no' = chunk_no + 1
         /\ IF empty(df)
            THEN pc' = "finalize" /\ field_i' = field_i
            ELSE pc' = "coerce" /\ field_i' = 1
  /\ UNCHANGED <<config, output_file, first_chunk, pq_writer, in_error,
                 outcome, printed, err, log>>

\* "for chunk in file" ends: the reader has no further chunk.
ReadEnd ==
  /\ pc = "read"
  /\ pos = Len(input_file) /\ chunk_no > 0
  /\ pc' = "finalize"
  /\ UNCHANGED <<config, output_file, first_chunk, pq_writer, in_error, chunk,
                 chunk_no, pos, field_i, outcome, printed, err, log>>

\* ReadParserError with the ParserError falling to "except Exception".
ReadParserError_generic ==
  /\ pc = "read"
  /\ pos < Len(input_file)
  /\ ExceptException(Err("ParserError", chunk_no + 1, "read", "none"))
  /\ UNCHANGED <<config, output_file, first_chunk, pq_writer, chunk,
                 chunk_no, pos, field_i, outcome, log>>

\* "for chunk in file" raises ParserError on the lines of the next chunk;
\* "except ParserError as pe": printed, and re-raised out of convert() when
\* fault_tolerant is False.
ReadParserError ==
  /\ pc = "read"
  /\ pos < Len(input_file)
  /\ printed' = Append(printed, "pe")
  /\ err' = Err("ParserError", chunk_no + 1, "read", "none")
  /\ IF Reraises(fault_tolerant)
     THEN pc' = "done" /\ outcome' = "ParserError"
     ELSE pc' = "finalize" /\ outcome' = outcome
  /\ UNCHANGED <<config, output_file, first_chunk, pq_writer, in_error, chunk,
                 chunk_no, pos, field_i, log>>

\* The loop over the fields left after its first pass: the chunk goes to the
\* writer with only its first column coerced.
Coerce_firstonly ==
  /\ pc = "coerce"
  /\ LET r == CoerceField(fields[field_i], chunk[field_i])
     IN  IF r.ok
         THEN /\ chunk' = [chunk EXCEPT ![field_i] = r.col]
              /\ pc' = "write" /\ field_i' = field_i
              /\ UNCHANGED <<in_error, printed, err>>
         ELSE /\ ExceptException(Err("ValueError", chunk_no, "coerce",
                                     fields[field_i].type))
              /\ UNCHANGED <<chunk, field_i>>
  /\ UNCHANGED <<config, output_file, first_chunk, pq_writer, chunk_no, pos,
                 outcome, log>>

\* One pass of "for field in self.fields": the column is replaced by its
\* coercion, or the ValueError of the pass is caught by "except Exception".
Coerce ==
  /\ pc = "coerce"
  /\ LET r == CoerceField(fields[field_i], chunk[field_i])
     IN  IF r.ok
         THEN /\ chunk' = [chunk EXCEPT ![field_i] = r.col]
              /\ IF field_i = Len(fields)
                 THEN pc' = "write" /\ field_i' = field_i
                 ELSE pc' = "coerce" /\ field_i' = field_i + 1
              /\ UNCHANGED <<in_error, printed, err>>
         ELSE /\ ExceptException(Err("ValueError", chunk_no, "coerce",
                                     fields[field_i].type))
              /\ UNCHANGED <<chunk, field_i>>
  /\ UNCHANGED <<config, output_file, first_chunk, pq_writer, chunk_no, pos,
                 outcome, log>>

\* WriteChunk with first_chunk never cleared: the writer is opened anew on
\* every chunk.
WriteChunk_reopen ==
  /\ pc = "write"
  /\ LET schema == TableSchema(chunk)
     IN  /\ pq_writer' = [state |-> "open", schema |-> schema]
         /\ first_chunk' = TRUE
         /\ output_file' = [NewFile(schema) EXCEPT !.rows = TableRows(chunk)]
         /\ log' = log \o <<Call("open", chunk_no, schema),
                            Call("write", chunk_no, schema)>>
         /\ pc' = "read"
  /\ UNCHANGED <<config, chunk, chunk_no, pos, field_i, outcome, in_error,
                 printed, err>>

\* pa.Table.from_pandas, the writer opened on the first chunk, write_table:
\* the rows are appended, or write_table raises ValueError because the
\* table's schema is not the writer's.
WriteChunk ==
  /\ pc = "write"
  /\ LET schema == TableSchema(chunk)
         w == IF first_chunk THEN [state |-> "open", schema |-> schema]
              ELSE pq_writer
         f == IF first_chunk THEN NewFile(schema) ELSE output_file
         l == IF first_chunk THEN Append(log, Call("open", chunk_no, schema))
              ELSE log
     IN  /\ pq_writer' = w
         /\ first_chunk' = FALSE
         /\ IF SchemaEquals(schema, w.schema)
            THEN /\ output_file' = [f EXCEPT !.rows = @ \o TableRows(chunk)]
                 /\ log' = Append(l, Call("write", chunk_no, schema))
                 /\ pc' = "read"
                 /\ UNCHANGED <<in_error, printed, err>>
            ELSE /\ output_file' = f
                 /\ log' = l
                 /\ ExceptException(Err("ValueError", chunk_no, "schema", "none"))
  /\ UNCHANGED <<config, chunk, chunk_no, pos, field_i, outcome>>

\* The file system fails the writer: pq.ParquetWriter raises OSError and
\* nothing is opened, or write_table raises it and nothing is appended.
WriteOSError ==
  /\ pc = "write"
  /\ \E at \in {"open", "write"} :
       /\ at = "open" => first_chunk
       /\ IF at = "write" /\ first_chunk
          THEN /\ pq_writer' = [state |-> "open", schema |-> TableSchema(chunk)]
               /\ first_chunk' = FALSE
               /\ output_file' = NewFile(TableSchema(chunk))
               /\ log' = Append(log, Call("open", chunk_no, TableSchema(chunk)))
          ELSE UNCHANGED <<pq_writer, first_chunk, output_file, log>>
       /\ ExceptException(Err("OSError", chunk_no, at, "none"))
  /\ UNCHANGED <<config, chunk, chunk_no, pos, field_i, outcome>>

\* The writer left unclosed.
CloseWriter_never ==
  /\ pc = "finalize"
  /\ pc' = "exit"
  /\ UNCHANGED <<config, output_file, first_chunk, pq_writer, in_error, chunk,
                 chunk_no, pos, field_i, outcome, printed, err, log>>

\* "if pq_writer: pq_writer.close()".
CloseWriter ==
  /\ pc = "finalize"
  /\ IF pq_writer.state # "None"
     THEN /\ pq_writer' = [pq_writer EXCEPT !.state = "closed"]
          /\ output_file' = [output_file EXCEPT !.finalized = TRUE]
          /\ log' = Append(log, Call("close", chunk_no, pq_writer.schema))
     ELSE UNCHANGED <<pq_writer, output_file, log>>
  /\ pc' = "exit"
  /\ UNCHANGED <<config, first_chunk, in_error, chunk, chunk_no, pos, field_i,
                 outcome, printed, err>>

\* The removal and the exit without "if in_error".
Abort_always ==
  /\ pc = "exit"
  /\ log' = Append(log, Call("remove", chunk_no, <<>>))
  /\ IF output_file.exists
     THEN /\ output_file' = NoFile
          /\ printed' = Append(printed, "abort")
          /\ outcome' = "SystemExit1"
     ELSE /\ outcome' = "FileNotFoundError"
          /\ UNCHANGED <<output_file, printed>>
  /\ pc' = "done"
  /\ UNCHANGED <<config, first_chunk, pq_writer, in_error, chunk, chunk_no,
                 pos, field_i, err>>

\* "if in_error": os.remove raises FileNotFoundError when nothing is at the
\* path; otherwise the file is removed, the message printed, sys.exit(1).
Abort ==
  /\ pc = "exit"
  /\ in_error
  /\ log' = Append(log, Call("remove", chunk_no, <<>>))
  /\ IF output_file.exists
     THEN /\ output_file' = NoFile
          /\ printed' = Append(printed, "abort")
          /\ outcome' = "SystemExit1"
     ELSE /\ outcome' = "FileNotFoundError"
          /\ UNCHANGED <<output_file, printed>>
  /\ pc' = "done"
  /\ UNCHANGED <<config, first_chunk, pq_writer, in_error, chunk, chunk_no,
                 pos, field_i, err>>

\* "else": the completion message; convert() returns.
Complete ==
  /\ pc = "exit"
  /\ ~in_error
  /\ printed' = Append(printed, "complete")
  /\ outcome' = "success"
  /\ pc' = "done"
  /\ UNCHANGED <<config, output_file, first_chunk, pq_writer, in_error, chunk,
                 chunk_no, pos, field_i, err, log>>

Next ==
  \/ ReadChunk
  \/ ReadEnd
  \/ ReadParserError
  \/ Coerce
  \/ WriteChunk
  \/ WriteOSError
  \/ CloseWriter
  \/ Abort
  \/ Complete

Spec == Init /\ [][Next]_vars

\* ------------------------------------------------------------- what a run should leave
InitialFile == IF stale_at_start THEN StaleFile ELSE NoFile

\* The columns of a chunk after the loop over the first k fields.
RECURSIVE CoerceUpTo(_, _, _)
CoerceUpTo(flds, df, k) ==
  IF k = 0 THEN df
  ELSE [CoerceUpTo(flds, df, k - 1) EXCEPT ![k] = CoerceField(flds[k], df[k]).col]

\* The raw lines of chunk c are ChunkStart(c)+1 .. ChunkEnd(c): chunk_size
\* lines a chunk, counted from the first line that is not blank.
ChunkEnd(c) ==
  Min(LeadingBlanks(fields, input_file) + c * chunk_size, Len(input_file))
ChunkStart(c) == ChunkEnd(c - 1)

\* Chunk c of the input, read and coerced.
ChunkTable(c) ==
  CoerceUpTo(fields,
             ReadFwfChunk(fields, input_file, ChunkStart(c), ChunkEnd(c)),
             Len(fields))

\* The rows of chunks 1..j, in file order.
RECURSIVE RowsOfChunks(_)
RowsOfChunks(j) ==
  IF j = 0 THEN <<>> ELSE RowsOfChunks(j - 1) \o TableRows(ChunkTable(j))

\* The chunks the raw lines from the first line of data on make up.
NumChunks ==
  (Len(input_file) - LeadingBlanks(fields, input_file) + chunk_size - 1)
    \div chunk_size

\* The data rows of the input: its lines that are not blank.
DataRows == DataLines(fields, input_file)

\* A cell as a value: a whole number of an int64 column and the same number
\* of a float64 column are one value.
Value(cell, type) ==
  IF type = "int64" THEN [cell EXCEPT !.num = FromInt(@)] ELSE cell

\* Data row i of the input, read and coerced on its own, as values.
RowCoerced(i) ==
  LET df == CoerceUpTo(fields, ReadFwfChunk(fields, DataRows, i - 1, i),
                       Len(fields))
  IN  [k \in 1..Len(fields) |-> Value(df[k].vals[1], df[k].dtype)]

\* Row i of the output file, as values.
RowWritten(i) ==
  [k \in 1..Len(fields) |->
     Value(output_file.rows[i][k], output_file.schema[k].type)]

Ops(op) == {i \in DOMAIN log : log[i].op = op}
Done == pc = "done"
Failed == outcome \in {"ParserError", "SystemExit1", "FileNotFoundError"}
\* A malformed value of an int or fixed_monetary column stopped the run.
HardFailure ==
  err.at = "coerce" /\ err.type \in {"int", "fixed_monetary"}

\* ------------------------------------------------------------- claims
\* C1: when the first chunk holds a non-numeric value in an int column (the
\* writer was never opened), convert() ends in SystemExit and no file is at
\* the output path, whatever fault_tolerant is.
C1_FirstChunkIntFailureExits ==
  (Done /\ err.kind = "ValueError" /\ err.at = "coerce" /\ err.type = "int"
        /\ err.chunk = 1)
    => (outcome = "SystemExit1" /\ ~output_file.exists)

\* C2: all-or-nothing: whenever convert() ends in failure, no file is at
\* the output path.  Stated for the runs that start with nothing at the
\* output path, so that the file found there is the run's own.
C2_AllOrNothing ==
  (Done /\ Failed /\ ~stale_at_start) => ~output_file.exists

\* C3: with fault_tolerant not False, after a ParserError on chunk k no
\* chunk k or later is read or written, the rows of chunks 1..k-1 stay in
\* the output file, the writer (if opened) ends closed, nothing is removed
\* and the run ends in success.
C3_FaultTolerantParseError ==
  (fault_tolerant # "False" /\ err.kind = "ParserError") =>
    /\ chunk_no < err.chunk
    /\ \A i \in DOMAIN log : log[i].chunk < err.chunk
    /\ Ops("remove") = {}
    /\ ~in_error
    /\ outcome \in {"running", "success"}
    /\ IF err.chunk = 1
       THEN pq_writer = NoWriter /\ output_file = InitialFile
       ELSE /\ pq_writer.state # "None"
            /\ output_file.exists /\ ~output_file.stale
            /\ output_file.rows = RowsOfChunks(err.chunk - 1)
    /\ Done => /\ outcome = "success"
               /\ pq_writer.state \in {"None", "closed"}
               /\ output_file.exists => output_file.finalized

C3_Witness ==
  /\ Done /\ outcome = "success" /\ ~stale_at_start
  /\ fault_tolerant = "True" /\ err.kind = "ParserError" /\ err.chunk = 2
  /\ output_file.exists /\ Len(output_file.rows) > 0 /\ output_file.finalized

\* C4 as claimed: a malformed int or fixed_monetary value is handled as a
\* parse error under the fault-tolerance flag: with fault_tolerant not False
\* and the failure in chunk k, the rows of chunks 1..k-1 stay in the
\* finalized output file, nothing is removed and the run does not fail.
C4_HardFailureIsParseError ==
  (Done /\ HardFailure /\ fault_tolerant # "False") =>
    /\ ~Failed
    /\ Ops("remove") = {}
    /\ err.chunk > 1 => /\ output_file.exists /\ output_file.finalized
                        /\ output_file.rows = RowsOfChunks(err.chunk - 1)

\* C4 amended: a malformed int or fixed_monetary value is a ValueError for
\* "except Exception", whatever fault_tolerant is: the error flag is set,
\* chunk k and the chunks after it are not written, the writer (if opened)
\* ends closed, no file is left at the output path and the run ends in
\* failure.
C4_HardFailureIsFatal ==
  HardFailure =>
    /\ err.kind = "ValueError"
    /\ in_error
    /\ \A i \in Ops("write") : log[i].chunk < err.chunk
    /\ outcome # "success"
    /\ Done => /\ outcome \in {"SystemExit1", "FileNotFoundError"}
               /\ ~output_file.exists
               /\ pq_writer.state \in {"None", "closed"}

C4_Witness ==
  /\ Done /\ HardFailure /\ fault_tolerant = "True"
  /\ err.chunk = 2 /\ Ops("write") # {}
  /\ outcome = "SystemExit1" /\ ~output_file.exists

\* C5: a non-parse exception raised while coercing or writing a chunk is
\* fatal whatever fault_tolerant is: the error flag is set, no file is at
\* the output path, the abort message is printed and the process exits
\* with status 1.
C5_NonParseExceptionAborts ==
  (Done /\ err.kind \in {"ValueError", "OSError"}) =>
    /\ in_error
    /\ ~output_file.exists
    /\ \E i \in DOMAIN printed : printed[i] = "abort"
    /\ outcome = "SystemExit1"

\* C6: on an input of zero data rows no field is coerced, the writer is
\* never opened, nothing is done to the output path and the run reports
\* success.
C6_EmptyInput ==
  DataRows = <<>> =>
    /\ field_i = 0
    /\ log = <<>>
    /\ pq_writer = NoWriter /\ first_chunk
    /\ output_file = InitialFile
    /\ ~in_error /\ err = NoErr
    /\ outcome \in {"running", "success"}
    /\ Done => outcome = "success"

C6_Witness ==
  /\ Done /\ Len(input_file) = 0 /\ chunk_no = 1
  /\ outcome = "success" /\ ~output_file.exists

\* C7 as claimed: when convert() ends in success, a finalized output file
\* of this run is at the output path or the input had zero data rows.
C7_SuccessHasFileOrEmptyInput ==
  (Done /\ outcome = "success") =>
    \/ output_file.exists /\ ~output_file.stale /\ output_file.finalized
    \/ DataRows = <<>>

\* C7 amended: when convert() ends in success, a finalized output file of
\* this run is at the output path, or nothing was written because the input
\* had zero data rows or because a ParserError on the first chunk was
\* swallowed.
C7_SuccessHasFileOrNothingWritten ==
  (Done /\ outcome = "success") =>
    \/ output_file.exists /\ ~output_file.stale /\ output_file.finalized
    \/ DataRows = <<>>
    \/ err.kind = "ParserError" /\ err.chunk = 1 /\ fault_tolerant # "False"

C7_Witness ==
  /\ Done /\ outcome = "success" /\ DataRows # <<>>
  /\ err.kind = "ParserError" /\ err.chunk = 1
  /\ ~output_file.exists


\* C9: the schema captured when the writer is opened never changes: every
\* call on the writer carries it and the file has it; every chunk read is
\* written before the next is read; a later chunk whose table has another
\* schema is not written: the run aborts and no file is left.
C9_SchemaFreeze ==
  /\ \A i \in DOMAIN log :
       log[i].op \in {"open", "write", "close"} =>
         log[1].op = "open" /\ log[i].schema = log[1].schema
  /\ pq_writer.state # "None" =>
       log # <<>> /\ log[1].op = "open" /\ pq_writer.schema = log[1].schema
  /\ (output_file.exists /\ ~output_file.stale) =>
       output_file.schema = log[1].schema
  /\ pc = "read" => Cardinality(Ops("write")) = chunk_no
  /\ err.at = "schema" =>
       /\ in_error /\ err.chunk > 1
       /\ TableSchema(ChunkTable(err.chunk)) # log[1].schema
       /\ \A i \in Ops("write") : log[i].chunk < err.chunk
       /\ Done => outcome = "SystemExit1" /\ ~output_file.exists

C9_Witness ==
  /\ Done /\ err.at = "schema" /\ err.chunk = 2 /\ fault_tolerant = "True"
  /\ outcome = "SystemExit1" /\ ~output_file.exists

\* C10: the writer is opened at most once, on the first chunk of a
\* non-empty input and before any append; every append comes after the
\* open and before the close; a writer never opened is never closed and
\* creates no file.
C10_WriterLifecycle ==
  /\ Cardinality(Ops("open")) <= 1
  /\ \A i \in Ops("open") : i = 1 /\ log[i].chunk = 1 /\ DataRows # <<>>
  /\ \A i \in Ops("write") :
       /\ \E j \in Ops("open") : j < i
       /\ \A j \in Ops("close") : j > i
  /\ Cardinality(Ops("close")) <= 1
  /\ (pq_writer.state = "None") <=> (Ops("open") = {})
  /\ (pq_writer.state = "closed") <=> (Ops("close") # {})
  /\ Ops("open") = {} =>
       /\ Ops("close") = {} /\ Ops("write") = {}
       /\ output_file \in {InitialFile, NoFile}

C10_Witness ==
  /\ Done /\ outcome = "success" /\ ~stale_at_start
  /\ Cardinality(Ops("open")) = 1 /\ Cardinality(Ops("write")) >= 2
  /\ Cardinality(Ops("close")) = 1 /\ log[Len(log)].op = "close"

\* C11: whatever was at the output path before the run (nothing, or a file
\* left by an earlier run), no file is there after a run on an input of zero
\* data rows, and none after a run that aborted (the error flag set).
C11_NoFileAfterEmptyOrAbort ==
  Done =>
    /\ DataRows = <<>> => ~output_file.exists
    /\ in_error => ~output_file.exists

\* A date field without its format.
Unformatted(field) == field.type = "date" /\ field.format = <<>>
HasUnformattedDate == \E k \in DOMAIN fields : Unformatted(fields[k])

\* C12: a schema holding a date field without format is rejected before any
\* value of any row is coerced, for every input (an input of zero data rows
\* too), and the rejection does nothing to the output path: no file is
\* created there and none deleted.
C12_UnformattedDateRejectedFirst ==
  HasUnformattedDate =>
    /\ \A k \in DOMAIN chunk : chunk[k].dtype = "str"
    /\ output_file = InitialFile
    /\ Ops("remove") = {}
    /\ Done => Failed /\ err.type = "date"

\* C13: on every way out of convert() on which the writer was opened, the
\* writer is closed before convert() returns, raises or exits, and a
\* removal of the output file comes after the close.
C13_WriterClosedOnEveryExit ==
  /\ (Done /\ Ops("open") # {}) =>
       pq_writer.state = "closed" /\ Ops("close") # {}
  /\ \A r \in Ops("remove") :
       Ops("open") # {} => \E c \in Ops("close") : c < r

\* The cell of field k in line i, as the reader cuts it.
RawCell(i, k) == SplitLine(fields, input_file[i])[k]

\* The run meets nothing irregular but malformed float, bool or date values:
\* every date field has its format, every int and fixed_monetary value is
\* well formed, no line is blank, the reader and the file system raise
\* nothing.  The float values are whole numbers or malformed text.
OnlySoftIrregularities ==
  /\ ~HasUnformattedDate
  /\ DataRows = input_file
  /\ \A k \in DOMAIN fields : \A i \in DOMAIN input_file :
       /\ fields[k].type = "int" => int_type_handler(RawCell(i, k)).ok
       /\ fields[k].type = "fixed_monetary" =>
            monetary_type_handler(RawCell(i, k)).ok
       /\ fields[k].type = "float" => DotAt(RawCell(i, k)) = 0
  /\ err.kind \notin {"ParserError", "OSError"}

\* C14: a malformed float, bool or date value is data: a run that meets no
\* other irregularity never sets the error flag and ends in success with
\* every input row in the output file.
C14_SoftFailuresAreData ==
  OnlySoftIrregularities =>
    /\ ~in_error
    /\ Done => /\ outcome = "success"
               /\ Len(DataRows) >= 1 =>
                    /\ output_file.exists /\ ~output_file.stale
                    /\ Len(output_file.rows) = Len(DataRows)

\* ------------------------------------------------------------- convert() called twice
\* A second call of convert() on the same converter, after the first has
\* returned or raised: the locals start afresh (lines 40-47), the attributes
\* and whatever the first call left at the output path stay.
Rerun ==
  /\ Done
  /\ run = 1
  /\ run' = 2
  /\ first' = [file |-> output_file, outcome |-> outcome, err |-> err]
  /\ first_chunk' = TRUE
  /\ pq_writer' = NoWriter
  /\ in_error' = FALSE
  /\ chunk' = <<>>
  /\ chunk_no' = 0
  /\ pos' = LeadingBlanks(fields, input_file)
  /\ field_i' = 0
  /\ pc' = "read"
  /\ outcome' = "running"
  /\ printed' = <<>>
  /\ err' = NoErr
  /\ log' = <<>>
  /\ UNCHANGED <<fields, input_file, chunk_size, fault_tolerant,
                 stale_at_start, output_file>>

\* The second call meets the reader and the file system of the first: the
\* same input raises ParserError at the same chunk, the same path raises
\* OSError at the same call.
FaultHere(kind, k) == first.err.kind = kind /\ first.err.chunk = k
MayFault(kind, k) == run = 1 \/ FaultHere(kind, k)
MayPass(kind, k) == run = 1 \/ ~FaultHere(kind, k)

NextTwice ==
  \/ MayPass("ParserError", chunk_no + 1) /\ ReadChunk
  \/ MayPass("ParserError", chunk_no + 1) /\ ReadEnd
  \/ MayFault("ParserError", chunk_no + 1) /\ ReadParserError
  \/ Coerce
  \/ MayPass("OSError", chunk_no) /\ WriteChunk
  \/ MayFault("OSError", chunk_no) /\ WriteOSError
       /\ (run = 2 => err'.at = first.err.at)
  \/ CloseWriter
  \/ Abort
  \/ Complete
  \/ Rerun

SpecTwice == Init /\ [][NextTwice]_vars

\* C15: a second call of convert() with the same attributes, input and
\* output path ends with the output path in the state the first call left
\* it in, and with the first call's outcome.
C15_Idempotent ==
  (Done /\ run = 2) =>
    /\ output_file = first.file
    /\ outcome = first.outcome

\* ------------------------------------------------------------- one value through a handler
\* The characters of the values: digits, the decimal point, a sign, the
\* exponent marker, a letter.
Chars == {"0", "1", "5", ".", "-", "e", "a"}

\* Every text of 1..MaxWidth characters.
HandlerLines == {l \in SeqsUpTo(Chars, MaxWidth) : Len(l) >= 1}

\* One column of width MaxWidth, of each type with a coercion of its own.
HandlerSchemas ==
  {<< Field("col1", MaxWidth, t, <<>>) >> :
     t \in {"int", "float", "bool", "fixed_monetary"}}

\* A converter of one column over a file of one line.
InitHandlers ==
  /\ fields \in HandlerSchemas
  /\ input_file \in {<<l>> : l \in HandlerLines}
  /\ chunk_size = 1
  /\ fault_tolerant \in FaultTolerantValues
  /\ stale_at_start \in BOOLEAN
  /\ output_file = IF stale_at_start THEN StaleFile ELSE NoFile
  /\ first_chunk = TRUE
  /\ pq_writer = NoWriter
  /\ in_error = FALSE
  /\ chunk = <<>>
  /\ chunk_no = 0
  /\ pos = LeadingBlanks(fields, input_file)
  /\ field_i = 0
  /\ pc = "read"
  /\ outcome = "running"
  /\ printed = <<>>
  /\ err = NoErr
  /\ log = <<>>
  /\ run = 1
  /\ first = NoFirst

SpecHandlers == InitHandlers /\ [][Next]_vars

\* The value the loop over the fields has made of the line's only cell.
Coerced == pc = "write" /\ chunk_no = 1
CoercedCell == chunk[1].vals[1]

\* C16: a fixed_monetary value of two or more digits is coerced without an
\* error to the number whose integer part is raw[:-2] and whose hundredths
\* are raw[-2:].
C16_FixedMonetaryValue ==
  LET raw == RawCell(1, 1)
      n == Len(raw)
  IN  (fields[1].type = "fixed_monetary" /\ chunk_no = 1
       /\ IsDigits(raw) /\ n >= 2) =>
        /\ err.at # "coerce"
        /\ Coerced =>
             /\ chunk[1].dtype = "float64"
             /\ CoercedCell =
                  NumCell(Double(FALSE,
                                 DigitList(Slice(raw, 0, n - 2))
                                 \o DigitList(Slice(raw, n - 2, n)),
                                 0 - 2))

\* "1050" has become 10.50.
C16_Witness ==
  /\ fields[1].type = "fixed_monetary"
  /\ Coerced
  /\ RawCell(1, 1) = <<"1", "0", "5", "0">>
  /\ CoercedCell = NumCell(Fin(FALSE, <<1, 0, 5>>, 0 - 1))

\* C17: a bool value that parses as a number is coerced to true exactly
\* when the number is not zero; a value that does not parse is coerced to
\* false.
C17_BoolValue ==
  LET parsed == to_double(RawCell(1, 1))
      nonzero == parsed.ok /\ parsed.num.kind # "nan" /\ ~IsZero(parsed.num)
  IN  (fields[1].type = "bool" /\ Coerced) =>
        /\ chunk[1].dtype = "bool"
        /\ CoercedCell = NumCell(IF nonzero THEN 1 ELSE 0)

\* The chunks appended to the output so far.
Written == Cardinality(Ops("write"))

\* The chunk the reader yielded last, as read.
ChunkRead ==
  ReadFwfChunk(fields, input_file, ChunkStart(chunk_no), ChunkEnd(chunk_no))

\* C18: chunks are read, coerced and written one after the other: the k-th
\* append is chunk k; while chunk N is coerced or waits for its append,
\* exactly the chunks before it are appended and nothing further is read; a
\* chunk reaches the writer with every field coerced; the next chunk is read
\* only when all chunks read are appended; the rows of the file the run
\* writes are at every point the rows of its first j chunks, in file order.
C18_WholeChunksInOrder ==
  /\ \A i \in Ops("write") :
       log[i].chunk = Cardinality({j \in Ops("write") : j <= i})
  /\ pc = "coerce" =>
       /\ Written = chunk_no - 1
       /\ chunk = CoerceUpTo(fields, ChunkRead, field_i - 1)
  /\ pc = "write" =>
       /\ Written = chunk_no - 1
       /\ field_i = Len(fields)
       /\ chunk = ChunkTable(chunk_no)
  /\ pc = "read" =>
       /\ Written = chunk_no
       /\ pos = ChunkEnd(chunk_no)
  /\ (output_file.exists /\ ~output_file.stale) =>
       /\ Written <= NumChunks
       /\ output_file.rows = RowsOfChunks(Written)

\* Two chunks of two columns are appended and a third is still to be read.
C18_Witness ==
  /\ pc = "read" /\ chunk_no = 2 /\ Written = 2 /\ Len(fields) = 2
  /\ pos < Len(input_file)
  /\ output_file.rows = RowsOfChunks(2) /\ Len(output_file.rows) = 2

\* The reader's parse error has been caught.
ParseErrorCaught == err.kind = "ParserError"
Printed(what) == \E i \in DOMAIN printed : printed[i] = what

\* C19: a parse error leaves convert() as an exception exactly when
\* fault_tolerant is the boolean False; with True, and with the None of an
\* omitted option, it is printed and swallowed, the run goes on to finalize
\* and ends as a successful run does.
C19_ReraisedOnlyWhenFalse ==
  /\ outcome = "ParserError" => ParseErrorCaught /\ fault_tolerant = "False"
  /\ (ParseErrorCaught /\ fault_tolerant = "False") =>
       Done /\ outcome = "ParserError"
  /\ (ParseErrorCaught /\ fault_tolerant \in {"True", "None"}) =>
       /\ Printed("pe") /\ ~in_error
       /\ pc \in {"finalize", "exit", "done"}
       /\ Done => outcome = "success" /\ Printed("complete")
       /\ (Done /\ pq_writer.state # "None") => pq_writer.state = "closed"

\* The option omitted: the parse error on chunk 2 is swallowed and the run
\* ends in success with chunk 1 in a closed file.
C19_Witness ==
  /\ Done /\ fault_tolerant = "None" /\ ParseErrorCaught /\ err.chunk = 2
  /\ outcome = "success" /\ Printed("pe")
  /\ pq_writer.state = "closed" /\ output_file.finalized

\* The output file's removal was attempted, or the run ended on the abort
\* path (exit status 1, or the FileNotFoundError of the removal).
AbortAttempted ==
  \/ Ops("remove") # {}
  \/ outcome \in {"SystemExit1", "FileNotFoundError"}
  \/ Printed("abort")

\* C20: the removal of the output file and the exit with status 1 are
\* attempted only with the error flag set, and the flag is set only by an
\* exception other than a parse error: a run without exception, and a run
\* whose exception is a parse error, attempts neither.
C20_AbortOnlyOnErrorFlag ==
  /\ AbortAttempted => in_error /\ Done
  /\ in_error <=> err.kind \in {"ValueError", "OSError"}
  /\ err.kind \in {"none", "ParserError"} => ~in_error /\ ~AbortAttempted

\* A swallowed parse error after chunk 1: the run ends with no removal and
\* the file of chunk 1 in place.
C20_Witness ==
  /\ Done /\ ParseErrorCaught /\ outcome = "success"
  /\ Ops("remove") = {} /\ ~Printed("abort")
  /\ output_file.exists /\ ~output_file.stale /\ Len(output_file.rows) >= 1

====
